---------------------------- MODULE Spec2Model ----------------------------
(***************************************************************************)
(* MetaMark core: the scanner (lexer.c), the grammar parser (parser.c),    *)
(* the AST (ast.c), the metadata table (metadata.c) and the last-error     *)
(* slot (utils.c), as a state machine of parse_metamark calls.             *)
(*                                                                         *)
(* Bytes are their ASCII codes; a C string is the sequence of its bytes    *)
(* without the terminating NUL.  Cursor positions are 0-based as in the    *)
(* code: the byte at position p of s is s[p + 1].  Every allocation is     *)
(* taken to succeed, except malloc(0), whose result the C standard leaves  *)
(* to the implementation.                                                  *)
(***************************************************************************)
EXTENDS Integers, Sequences, FiniteSets, TLC

VARIABLES
    pc,          \* where the caller / parse_metamark stands
    arg,         \* the argument of the current parse_metamark call
    lexer,       \* the Lexer of the current call: [input, pos, length]
    doc,         \* <<>> (no Document) or <<d>>, d = [root, metadata, capacity]
    last_error,  \* utils.c: static MetaMarkError last_error
    errLog,      \* the set_error calls of the current call, in order
    progress,    \* cursor position at the start of the last loop iteration
    family,      \* the family of texts the caller draws its arguments from
    adds,        \* the caller's add_metadata calls on the current Document
    error_before, \* last_error when the current parse_metamark call began
    token_value, \* <<>>, or the last direct read_token_value call and its result
    nodes,       \* the Node objects allocated in the current call
    label        \* <<>>, or the caller's last node_type_to_string call and its result

vars == <<pc, arg, lexer, doc, last_error, errLog, progress, family, adds,
          error_before, token_value, label, nodes>>

---------------------------------------------------------------------------
(* Bytes; isspace, isalpha, isalnum of the C locale *)

NUL == 0
HT == 9
LF == 10
CR == 13
SP == 32
HASH == 35
PERCENT == 37
DASH == 45
SLASH == 47
DIGIT1 == 49
COLON == 58
GT == 62
AT == 64
LBRACKET == 91
RBRACKET == 93
LOWER_A == 97
LOWER_B == 98

isspace(c) == c \in {9, 10, 11, 12, 13, 32}
isalpha(c) == (c \in 65..90) \/ (c \in 97..122)
isalnum(c) == isalpha(c) \/ (c \in 48..57)

\* A char* that is NULL.  No C string holds the byte NUL, so the value is
\* distinct from every string.
NULL == <<NUL>>

\* The bytes s[from], ..., s[to - 1], positions 0-based.
Bytes(s, from, to) == SubSeq(s, from + 1, to)

Space == {9, 10, 11, 12, 13, 32}
Newlines == {LF, CR}

\* Where "while (i < to && s[i] in S) i++" started at from ends.
RECURSIVE span(_, _, _, _)
span(s, from, to, S) ==
    IF from < to /\ s[from + 1] \in S THEN span(s, from + 1, to, S) ELSE from

\* Where "while (i < to && s[i] not in S) i++" started at from ends.
RECURSIVE find(_, _, _, _)
find(s, from, to, S) ==
    IF from < to /\ s[from + 1] \notin S THEN find(s, from + 1, to, S) ELSE from

\* Where "while (e > lo && s[e - 1] in S) e--" started at hi ends.
RECURSIVE trim_end(_, _, _, _)
trim_end(s, lo, hi, S) ==
    IF hi > lo /\ s[hi] \in S THEN trim_end(s, lo, hi - 1, S) ELSE hi

---------------------------------------------------------------------------
(* utils.c *)

MM_ERROR_NONE == "MM_ERROR_NONE"
MM_ERROR_MEMORY == "MM_ERROR_MEMORY"
MM_ERROR_SYNTAX == "MM_ERROR_SYNTAX"
MM_ERROR_INVALID == "MM_ERROR_INVALID"

is_valid_identifier(str) ==
    /\ str # NULL
    /\ str # <<>>
    /\ (isalpha(str[1]) \/ str[1] = 95)
    /\ \A p \in 2..Len(str) : isalnum(str[p]) \/ str[p] = 95

---------------------------------------------------------------------------
(* lexer.c: the scanner *)

lexer_init(input) == [input |-> input, pos |-> 0, length |-> Len(input)]

peek(lx) == IF lx.pos >= lx.length THEN NUL ELSE lx.input[lx.pos + 1]

\* Declared in lexer.h; no definition is part of the sources.
peek_at(lx, offset) ==
    IF lx.pos + offset >= lx.length THEN NUL ELSE lx.input[lx.pos + offset + 1]

\* A next that advances at end of input too.
next_Unchecked(lx) == [lx EXCEPT !.pos = @ + 1]

next(lx) == IF peek(lx) # NUL THEN [lx EXCEPT !.pos = @ + 1] ELSE lx

\* lx moved by n bytes: lexer->pos += n.
skip(lx, n) == [lx EXCEPT !.pos = @ + n]

\* "while (peek(lexer) in S) next(lexer);", NUL not in S.
RECURSIVE skip_in(_, _)
skip_in(lx, S) == IF peek(lx) \in S THEN skip_in(next(lx), S) ELSE lx

\* "while (peek(lexer) != '\0' && peek(lexer) not in S) next(lexer);"
RECURSIVE skip_until(_, _)
skip_until(lx, S) ==
    IF peek(lx) # NUL /\ peek(lx) \notin S THEN skip_until(next(lx), S) ELSE lx

\* The bytes pat stand at the cursor.
looking_at(lx, pat) == \A k \in 1..Len(pat) : peek_at(lx, k - 1) = pat[k]

\* "while (peek(lexer) != '\0') { if (<pat at the cursor>) break; next(lexer); }"
RECURSIVE skip_to(_, _)
skip_to(lx, pat) ==
    IF peek(lx) # NUL /\ ~looking_at(lx, pat) THEN skip_to(next(lx), pat) ELSE lx

skip_whitespace(lx) == skip_in(lx, Space \ {LF})

\* read_token_value: len = end - start as size_t, malloc(len + 1), strncpy.
\*  - end >= start: the bytes [start, end) of the input, cut at its NUL.
\*  - end = start - 1: len is SIZE_MAX and len + 1 is 0.  malloc(0) returns
\*    NULL (the function then returns NULL) or a pointer to no storage, to
\*    which strncpy writes SIZE_MAX bytes (the process dies).  malloc0 is
\*    which of the two the C library does.
\*  - end < start - 1: malloc of nearly SIZE_MAX bytes fails, NULL.
read_token_value(lx, start, end, malloc0) ==
    IF end >= start
    THEN [crash |-> FALSE,
          value |-> Bytes(lx.input, start, IF end < lx.length THEN end ELSE lx.length)]
    ELSE IF end = start - 1 /\ ~malloc0
    THEN [crash |-> TRUE, value |-> NULL]
    ELSE [crash |-> FALSE, value |-> NULL]

\* next_token: the cursor after one pull.  parse_metadata calls it on "---".
\* The test "peek(lexer + 1) == '-' && peek(lexer + 2) == '-'" reads the
\* Lexer objects that would follow *lexer in memory, not the bytes at
\* pos + 1 and pos + 2: what it compares is not determined by the input.
\* fence is the outcome of the test.  TRUE: pos += 3.  FALSE: none of the
\* later delimiter tests applies to '-', and the text run is consumed.
next_token(lx, fence) ==
    LET l0 == skip_whitespace(lx) IN
    IF peek(l0) = NUL THEN l0
    ELSE IF peek(l0) = LF THEN next(l0)
    ELSE IF peek(l0) = HASH THEN next(l0)
    ELSE IF peek(l0) = DASH /\ fence THEN skip(l0, 3)
    ELSE IF peek(l0) \in {LBRACKET, RBRACKET, AT, PERCENT} /\ fence THEN skip(l0, 2)
    ELSE skip_until(l0, Space \cup {HASH, LBRACKET, AT, PERCENT})

---------------------------------------------------------------------------
(* metamark.h, ast.c: the tree *)

NODE_DOCUMENT == "NODE_DOCUMENT"
NODE_METADATA == "NODE_METADATA"
NODE_PARAGRAPH == "NODE_PARAGRAPH"
NODE_HEADING == "NODE_HEADING"
NODE_ANNOTATION == "NODE_ANNOTATION"
NODE_COMMENT == "NODE_COMMENT"
NODE_COMPONENT == "NODE_COMPONENT"
NODE_COLLAPSIBLE == "NODE_COLLAPSIBLE"
NODE_DIAGRAM == "NODE_DIAGRAM"
NODE_MATH == "NODE_MATH"
NODE_SECURE == "NODE_SECURE"

\* metamark.h 21-33.
NodeType ==
    { NODE_DOCUMENT, NODE_METADATA, NODE_PARAGRAPH, NODE_HEADING, NODE_ANNOTATION,
      NODE_COMMENT, NODE_COMPONENT, NODE_COLLAPSIBLE, NODE_DIAGRAM, NODE_MATH,
      NODE_SECURE }

\* ast.c 109-130.
node_type_to_string(type) ==
    CASE type = NODE_DOCUMENT -> "DOCUMENT"
      [] type = NODE_METADATA -> "METADATA"
      [] type = NODE_HEADING -> "HEADING"
      [] type = NODE_PARAGRAPH -> "PARAGRAPH"
      [] type = NODE_COMPONENT -> "COMPONENT"
      [] type = NODE_ANNOTATION -> "ANNOTATION"
      [] type = NODE_COMMENT -> "COMMENT"
      [] type = NODE_SECURE -> "SECURE"
      [] OTHER -> "UNKNOWN"

\* level is the field parse_heading stores the marker count in; create_node
\* does not set it and nothing reads it on a node of another kind.
create_node(type, content) ==
    [type |-> type, content |-> content, children |-> <<>>,
     child_capacity |-> 0, level |-> 0]

\* A variant of add_child that puts the new child before the others.
add_child_First(parent, child) ==
    [parent EXCEPT
        !.child_capacity = IF Len(parent.children) >= @
                           THEN (IF @ = 0 THEN 4 ELSE @ * 2) ELSE @,
        !.children = <<child>> \o @]

add_child(parent, child) ==
    [parent EXCEPT
        !.child_capacity = IF Len(parent.children) >= @
                           THEN (IF @ = 0 THEN 4 ELSE @ * 2) ELSE @,
        !.children = Append(@, child)]

\* The Node objects of a call as allocated storage.  h is the sequence of
\* the Nodes allocated so far; the address of a Node is its index in h and
\* 0 is NULL.  A cell holds the Node's type and content, the addresses in
\* its children array, and how many times free() was called on it.
create_node_at(h, type, content) ==
    Append(h, [type |-> type, content |-> content, children |-> <<>>, freed |-> 0])

\* ast.c 26-43 on addresses: the child's address is stored, nothing is
\* copied.
add_child_at(h, parent, child) ==
    IF parent = 0 \/ child = 0 THEN h
    ELSE [h EXCEPT ![parent].children = Append(@, child)]

\* A variant of free_node that destroys the Node and leaves its children.
free_node_Shallow(h, node) ==
    IF node = 0 THEN h
    ELSE [h EXCEPT ![node].freed = @ + 1]

\* ast.c 45-66: the children first, in order, then the Node itself.  A Node
\* that is already destroyed is counted once more and not walked again.
RECURSIVE free_node(_, _)
free_node(h, node) ==
    IF node = 0 THEN h
    ELSE IF h[node].freed > 0 THEN [h EXCEPT ![node].freed = @ + 1]
    ELSE LET marked == [h EXCEPT ![node].freed = @ + 1]
             kids == h[node].children
             F[i \in 0..Len(kids)] ==
                 IF i = 0 THEN marked ELSE free_node(F[i - 1], kids[i])
         IN  F[Len(kids)]

\* The ast.c calls a routine makes, in order.  a and b are the routine's
\* own Nodes, numbered in the order of their create_node calls.
CallCreate(type, content) ==
    [op |-> "create_node", type |-> type, content |-> content, a |-> 0, b |-> 0]
CallAddChild(parent, child) ==
    [op |-> "add_child", type |-> "", content |-> NULL, a |-> parent, b |-> child]
CallFree(node) ==
    [op |-> "free_node", type |-> "", content |-> NULL, a |-> node, b |-> 0]

\* The storage h after the calls, for a routine entered when base Nodes
\* had been allocated.
call(h, base, c) ==
    IF c.op = "create_node" THEN create_node_at(h, c.type, c.content)
    ELSE IF c.op = "add_child" THEN add_child_at(h, base + c.a, base + c.b)
    ELSE free_node(h, base + c.a)

calls(h, cs) ==
    LET F[i \in 0..Len(cs)] ==
            IF i = 0 THEN h ELSE call(F[i - 1], Len(h), cs[i])
    IN  F[Len(cs)]

\* The address of a Document's root: the first Node of its call.
RootAddress == 1

\* ast.c 68-84 on the caller's Document pointer docp, <<>> (NULL) or <<d>>:
\* the storage afterwards, and how many times the key and the value of each
\* pair were freed.  Pairs stored past the allocated slots (add_metadata)
\* are read from outside the array: with heap they are read back as they
\* were written, without it the process dies.
free_document(h, docp, heap) ==
    IF docp = <<>> THEN [nodes |-> h, pairs |-> <<>>, crash |-> FALSE]
    ELSE IF Len(docp[1].metadata) > docp[1].capacity /\ ~heap
    THEN [nodes |-> h, pairs |-> <<>>, crash |-> TRUE]
    ELSE [nodes |-> free_node(h, RootAddress),
          pairs |-> [i \in 1..Len(docp[1].metadata) |-> 1],
          crash |-> FALSE]

---------------------------------------------------------------------------
(* parser.c: the construct routines.  Each yields                          *)
(*   lexer: the Lexer it leaves, node: <<>> (NULL) or <<n>>,               *)
(*   errs: its set_error calls as <<[code, by]>>, crash: the process died, *)
(*   calls: its ast.c calls in order, ptr: which of its own Nodes it       *)
(*   returns (0: NULL), reads: its read_token_value requests in order.     *)

Ret(lx, node, errs) ==
    [lexer |-> lx, node |-> node, errs |-> errs, crash |-> FALSE,
     calls |-> <<>>, ptr |-> 0, reads |-> <<>>]
Died(lx) ==
    [lexer |-> lx, node |-> <<>>, errs |-> <<>>, crash |-> TRUE,
     calls |-> <<>>, ptr |-> 0, reads |-> <<>>]
Made(r, cs, ptr) == [r EXCEPT !.calls = cs, !.ptr = ptr]
Request(start, end) == [start |-> start, end |-> end]
Asked(r, requests) == [r EXCEPT !.reads = requests]
Syntax(by) == <<[code |-> MM_ERROR_SYNTAX, by |-> by]>>

parse_heading(lx, malloc0) ==
    LET l1 == skip_in(lx, {HASH})
        level == l1.pos - lx.pos
        l2 == skip_in(l1, Space \ {LF})
        start == l2.pos
        l3 == skip_until(l2, {LF})
        l4 == IF peek(l3) = LF THEN next(l3) ELSE l3
        content == read_token_value(l4, start, l4.pos - 1, malloc0)
        r == IF content.crash THEN Died(l4)
             ELSE IF content.value # NULL /\ content.value # <<>>
             THEN Made(Ret(l4, <<[create_node(NODE_HEADING, content.value)
                                      EXCEPT !.level = level]>>, <<>>),
                       <<CallCreate(NODE_HEADING, content.value)>>, 1)
             ELSE Ret(l4, <<>>, <<>>)
    IN  Asked(r, <<Request(start, l4.pos - 1)>>)

CloseTag == <<LBRACKET, LBRACKET, SLASH>>
at_close_tag(l) == looking_at(l, CloseTag)

\* A variant of parse_component that accepts the closing tag only if it is
\* "[[/" the opening type name "]]".
parse_component_Strict(lx, malloc0) ==
    LET l1 == next(next(lx))
        start == l1.pos
        l2 == skip_until(l1, {RBRACKET})
    IN  IF peek(l2) # RBRACKET \/ peek_at(l2, 1) # RBRACKET
        THEN Ret(l2, <<>>, Syntax("parse_component"))
        ELSE
    LET type == read_token_value(l2, start, l2.pos, malloc0)
        node == create_node(NODE_COMPONENT, type.value)
        l3 == skip(l2, 2)
        l4 == IF peek(l3) = LF THEN next(l3) ELSE l3
        start2 == l4.pos
        l5 == skip_to(l4, CloseTag)
        l6 == skip_until(l5, {RBRACKET})
    IN  IF \/ ~at_close_tag(l5)
           \/ Bytes(l6.input, l5.pos + 3, l6.pos) # type.value
           \/ peek(l6) # RBRACKET \/ peek_at(l6, 1) # RBRACKET
        THEN Asked(Made(Ret(l5, <<>>, Syntax("parse_component")),
                        <<CallCreate(NODE_COMPONENT, type.value), CallFree(1)>>, 0),
                   <<Request(start, l2.pos)>>)
        ELSE
    LET content == read_token_value(l5, start2, l5.pos, malloc0)
        node2 == add_child(node, create_node(NODE_PARAGRAPH, content.value))
        l7 == skip(l6, 2)
        l8 == IF peek(l7) = LF THEN next(l7) ELSE l7
    IN  Asked(Made(Ret(l8, <<node2>>, <<>>),
                   <<CallCreate(NODE_COMPONENT, type.value),
                     CallCreate(NODE_PARAGRAPH, content.value), CallAddChild(1, 2)>>,
                   1),
              <<Request(start, l2.pos), Request(start2, l5.pos)>>)

parse_component(lx, malloc0) ==
    LET l1 == next(next(lx))
        start == l1.pos
        l2 == skip_until(l1, {RBRACKET})
    IN  IF peek(l2) # RBRACKET \/ peek_at(l2, 1) # RBRACKET
        THEN Ret(l2, <<>>, Syntax("parse_component"))
        ELSE
    LET type == read_token_value(l2, start, l2.pos, malloc0)
        node == create_node(NODE_COMPONENT, type.value)
        l3 == IF peek(l2) = RBRACKET /\ peek_at(l2, 1) = RBRACKET
              THEN skip(l2, 2) ELSE l2
        l4 == IF peek(l3) = LF THEN next(l3) ELSE l3
        start2 == l4.pos
        l5 == skip_to(l4, CloseTag)
    IN  IF ~at_close_tag(l5)
        THEN Asked(Made(Ret(l5, <<>>, Syntax("parse_component")),
                        <<CallCreate(NODE_COMPONENT, type.value), CallFree(1)>>, 0),
                   <<Request(start, l2.pos)>>)
        ELSE
    LET content == read_token_value(l5, start2, l5.pos, malloc0)
        node2 == IF content.value # NULL
                 THEN add_child(node, create_node(NODE_PARAGRAPH, content.value))
                 ELSE node
        l6 == skip_until(l5, {RBRACKET})
        l7 == IF peek(l6) = RBRACKET /\ peek_at(l6, 1) = RBRACKET
              THEN skip(l6, 2) ELSE l6
        l8 == IF peek(l7) = LF THEN next(l7) ELSE l7
    IN  Asked(Made(Ret(l8, <<node2>>, <<>>),
                   <<CallCreate(NODE_COMPONENT, type.value)>>
                   \o (IF content.value # NULL
                       THEN <<CallCreate(NODE_PARAGRAPH, content.value),
                              CallAddChild(1, 2)>>
                       ELSE <<>>),
                   1),
              <<Request(start, l2.pos), Request(start2, l5.pos)>>)

parse_annotation(lx, malloc0) ==
    LET l1 == next(lx)
        l2 == skip_in(l1, Space \ {LF})
        start == l2.pos
        l3 == skip_until(l2, {COLON, LF})
    IN  IF l3.pos = start
        THEN Ret(l3, <<>>, Syntax("parse_annotation"))
        ELSE
    LET type == read_token_value(l3, start, l3.pos, malloc0)
    IN  IF type.value = NULL \/ ~is_valid_identifier(type.value)
        THEN Asked(Ret(l3, <<>>, Syntax("parse_annotation")), <<Request(start, l3.pos)>>)
        ELSE
    LET node == create_node(NODE_ANNOTATION, type.value)
        l4 == next(l3)
        l5 == skip_in(l4, Space \ {LF})
        start2 == l5.pos
        l6 == skip_until(l5, {LF})
        content == read_token_value(l6, start2, l6.pos, malloc0)
        withColon == peek(l3) = COLON
        node2 == IF withColon /\ content.value # NULL
                 THEN add_child(node, create_node(NODE_PARAGRAPH, content.value))
                 ELSE node
        l7 == IF withColon THEN l6 ELSE l3
        l8 == IF peek(l7) = LF THEN next(l7) ELSE l7
    IN  Asked(Made(Ret(l8, <<node2>>, <<>>),
                   <<CallCreate(NODE_ANNOTATION, type.value)>>
                   \o (IF withColon /\ content.value # NULL
                       THEN <<CallCreate(NODE_PARAGRAPH, content.value),
                              CallAddChild(1, 2)>>
                       ELSE <<>>),
                   1),
              <<Request(start, l3.pos)>>
              \o (IF withColon THEN <<Request(start2, l6.pos)>> ELSE <<>>))

\* A variant of parse_comment that keeps the white space before the
\* closing "%%".
parse_comment_Untrimmed(lx, malloc0) ==
    LET l1 == next(next(lx))
        l2 == skip_in(l1, Space \ {LF})
        start == l2.pos
        l3 == skip_to(l2, <<PERCENT, PERCENT>>)
    IN  IF peek(l3) # PERCENT \/ peek_at(l3, 1) # PERCENT
        THEN Ret(l3, <<>>, Syntax("parse_comment"))
        ELSE
    LET got == read_token_value(l3, start, l3.pos, malloc0)
        content == IF got.value = NULL THEN <<>> ELSE got.value
        node == create_node(NODE_COMMENT, content)
        l4 == skip(l3, 2)
        l5 == IF peek(l4) = LF THEN next(l4) ELSE l4
    IN  Asked(Made(Ret(l5, <<node>>, <<>>), <<CallCreate(NODE_COMMENT, content)>>, 1),
              <<Request(start, l3.pos)>>)

parse_comment(lx, malloc0) ==
    LET l1 == next(next(lx))
        l2 == skip_in(l1, Space \ {LF})
        start == l2.pos
        l3 == skip_to(l2, <<PERCENT, PERCENT>>)
    IN  IF peek(l3) # PERCENT \/ peek_at(l3, 1) # PERCENT
        THEN Ret(l3, <<>>, Syntax("parse_comment"))
        ELSE
    LET end == trim_end(l3.input, start, l3.pos, Space)
        got == read_token_value(l3, start, end, malloc0)
        content == IF got.value = NULL THEN <<>> ELSE got.value
        node == create_node(NODE_COMMENT, content)
        l4 == IF peek(l3) = PERCENT /\ peek_at(l3, 1) = PERCENT
              THEN skip(l3, 2) ELSE l3
        l5 == IF peek(l4) = LF THEN next(l4) ELSE l4
    IN  Asked(Made(Ret(l5, <<node>>, <<>>), <<CallCreate(NODE_COMMENT, content)>>, 1),
              <<Request(start, end)>>)

\* The string left at s + k once the loop "e = s + strlen(s) - 1;
\* while (e > s + k && isspace(*e)) e--; e[1] = '\0';" has run.
cut_tail(s, k) ==
    Bytes(s, k, IF Len(s) <= k + 1 THEN Len(s) ELSE trim_end(s, k + 1, Len(s), Space))

\* parser.c 361-432: the lines of a frontmatter block's content, from the
\* line that starts at line_start.  ok is FALSE at a line without a colon.
RECURSIVE metadata_children(_, _, _)
metadata_children(content, line_start, node) ==
    IF line_start >= Len(content) THEN [ok |-> TRUE, node |-> node, calls |-> <<>>]
    ELSE
    LET line_end == find(content, line_start, Len(content), {LF})
        p == span(content, line_start, line_end, Space)
        colon == find(content, line_start, line_end, {COLON})
        key == Bytes(content, line_start, colon)
        k == span(key, 0, Len(key), Space)
        v == span(content, colon + 1, line_end, Space)
        value == Bytes(content, v, line_end)
        child_content == cut_tail(key, k) \o <<COLON>> \o cut_tail(value, 0)
        accepted == p < line_end /\ content[p + 1] # HASH
        node2 == IF accepted
                 THEN add_child(node, create_node(NODE_PARAGRAPH, child_content))
                 ELSE node
        made == IF accepted
                THEN <<CallCreate(NODE_PARAGRAPH, child_content),
                       CallAddChild(1, Len(node.children) + 2)>>
                ELSE <<>>
        rest == metadata_children(content, line_end + 1, node2)
    IN  IF accepted /\ colon = line_end
        THEN [ok |-> FALSE, node |-> node, calls |-> <<>>]
        ELSE IF line_end < Len(content)
        THEN [rest EXCEPT !.calls = made \o @]
        ELSE [ok |-> TRUE, node |-> node2, calls |-> made]

Fence == <<DASH, DASH, DASH>>
at_fence(l) == looking_at(l, Fence)

parse_metadata(lx, fence, malloc0) ==
    LET l1 == next_token(lx, fence)
        start == l1.pos
        l2 == skip_to(l1, Fence)
    IN  IF ~at_fence(l2)
        THEN Ret(l2, <<>>, Syntax("parse_metadata"))
        ELSE
    LET content == read_token_value(l2, start, l2.pos, malloc0)
        node == create_node(NODE_METADATA, content.value)
        lines == metadata_children(content.value, 0, node)
        l3 == IF at_fence(l2) THEN skip(l2, 3) ELSE l2
        r == IF ~lines.ok
             THEN Made(Ret(l2, <<>>, Syntax("parse_metadata")),
                       <<CallCreate(NODE_METADATA, content.value)>> \o lines.calls
                       \o <<CallFree(1)>>, 0)
             ELSE Made(Ret(l3, <<lines.node>>, <<>>),
                       <<CallCreate(NODE_METADATA, content.value)>> \o lines.calls, 1)
    IN  Asked(r, <<Request(start, l2.pos)>>)

\* A variant of paragraph_break that takes every '>' for the start of an
\* annotation, without the look at the byte after it.
paragraph_break_AnyGT(l) ==
    \/ peek(l) = HASH
    \/ (peek(l) = LBRACKET /\ peek_at(l, 1) = LBRACKET)
    \/ peek(l) = GT
    \/ (peek(l) = PERCENT /\ peek_at(l, 1) = PERCENT)
    \/ (peek(l) = DASH /\ peek_at(l, 1) = DASH /\ peek_at(l, 2) = DASH)

\* parser.c 492-496: the byte sequences that end a paragraph.
paragraph_break(l) ==
    \/ peek(l) = HASH
    \/ (peek(l) = LBRACKET /\ peek_at(l, 1) = LBRACKET)
    \/ (peek(l) = GT /\ peek_at(l, 1) # GT)
    \/ (peek(l) = PERCENT /\ peek_at(l, 1) = PERCENT)
    \/ (peek(l) = DASH /\ peek_at(l, 1) = DASH /\ peek_at(l, 2) = DASH)

\* parser.c 484-502: the paragraph loop, consecutive_newlines newlines seen.
RECURSIVE paragraph_scan(_, _)
paragraph_scan(lx, consecutive_newlines) ==
    IF peek(lx) = NUL THEN lx
    ELSE IF peek(lx) = LF
    THEN IF consecutive_newlines + 1 >= 2
         THEN next(lx)
         ELSE paragraph_scan(next(lx), consecutive_newlines + 1)
    ELSE IF paragraph_break(lx) THEN lx
    ELSE paragraph_scan(next(lx), 0)

parse_paragraph(lx, malloc0) ==
    LET start == lx.pos
        l1 == paragraph_scan(lx, 0)
        end == trim_end(l1.input, start, l1.pos, Newlines)
        content == read_token_value(l1, start, end, malloc0)
        l2 == skip_in(l1, Newlines)
        r == IF content.value # NULL /\ content.value # <<>>
             THEN Made(Ret(l2, <<create_node(NODE_PARAGRAPH, content.value)>>, <<>>),
                       <<CallCreate(NODE_PARAGRAPH, content.value)>>, 1)
             ELSE Ret(l1, <<>>, <<>>)
    IN  Asked(r, <<Request(start, end)>>)

\* A parse_node that puts the cursor back where the call began when it
\* gives no node.
parse_node_Rewind(lx, ub) ==
    LET l1 == skip_in(lx, Newlines)
        l2 == skip_in(l1, Space)
        current == peek(l2)
        r ==
            IF current = HASH THEN parse_heading(l2, ub.malloc0)
            ELSE IF current = LBRACKET /\ peek_at(l2, 1) = LBRACKET
            THEN parse_component(l2, ub.malloc0)
            ELSE IF current = GT THEN parse_annotation(l2, ub.malloc0)
            ELSE IF current = PERCENT /\ peek_at(l2, 1) = PERCENT
            THEN parse_comment(l2, ub.malloc0)
            ELSE IF current = DASH /\ peek_at(l2, 1) = DASH /\ peek_at(l2, 2) = DASH
            THEN parse_metadata(l2, ub.fence, ub.malloc0)
            ELSE IF current # NUL THEN parse_paragraph(l2, ub.malloc0)
            ELSE Ret(l2, <<>>, <<>>)
    IN  IF r.node = <<>> /\ ~r.crash THEN [r EXCEPT !.lexer = lx] ELSE r

\* ub = [fence, malloc0]: how the behaviours the C standard leaves open
\* turn out in this call.
parse_node(lx, ub) ==
    LET l1 == skip_in(lx, Newlines)
        l2 == skip_in(l1, Space)
        current == peek(l2)
    IN  IF current = HASH THEN parse_heading(l2, ub.malloc0)
        ELSE IF current = LBRACKET /\ peek_at(l2, 1) = LBRACKET
        THEN parse_component(l2, ub.malloc0)
        ELSE IF current = GT THEN parse_annotation(l2, ub.malloc0)
        ELSE IF current = PERCENT /\ peek_at(l2, 1) = PERCENT
        THEN parse_comment(l2, ub.malloc0)
        ELSE IF current = DASH /\ peek_at(l2, 1) = DASH /\ peek_at(l2, 2) = DASH
        THEN parse_metadata(l2, ub.fence, ub.malloc0)
        ELSE IF current # NUL THEN parse_paragraph(l2, ub.malloc0)
        ELSE Ret(l2, <<>>, <<>>)

---------------------------------------------------------------------------
(* metadata.c *)

INITIAL_METADATA_CAPACITY == 8

\* What trim_whitespace leaves in the caller's buffer: the leading skip
\* moves only the local pointer, the NUL written after the last
\* non-space byte cuts the buffer.
trim_whitespace(str) ==
    LET s == span(str, 0, Len(str), Space)
    IN  IF s = Len(str) THEN str
        ELSE Bytes(str, 0, trim_end(str, s + 1, Len(str), Space))

extract_key(line) ==
    LET colon == find(line, 0, Len(line), {COLON})
    IN  IF colon = Len(line) THEN NULL
        ELSE trim_whitespace(Bytes(line, 0, colon))

extract_value(line) ==
    LET colon == find(line, 0, Len(line), {COLON})
        value_start == span(line, colon + 1, Len(line), Space)
    IN  IF colon = Len(line) THEN NULL
        ELSE Bytes(line, value_start, Len(line))

\* d = [root, metadata, capacity]: capacity is the number of MetadataPair
\* slots the metadata array was last allocated with; metadata_count is
\* Len(d.metadata).  A pair stored at an index >= capacity is a write past
\* the allocation: with heap it lands and is read back, without it the
\* process dies.
add_metadata(d, key, value, heap) ==
    LET count == Len(d.metadata)
        cap1 == IF count = 0 THEN INITIAL_METADATA_CAPACITY ELSE d.capacity
        cap2 == IF count >= INITIAL_METADATA_CAPACITY
                THEN INITIAL_METADATA_CAPACITY * 2 ELSE cap1
    IN  IF key = NULL \/ value = NULL THEN [doc |-> d, crash |-> FALSE]
        ELSE IF count >= cap2 /\ ~heap THEN [doc |-> d, crash |-> TRUE]
        ELSE [doc |-> [d EXCEPT !.capacity = cap2,
                                !.metadata = Append(@, [key |-> key, value |-> value])],
              crash |-> FALSE]

\* A variant of get_metadata that returns the value of the last pair with
\* the key.
get_metadata_Last(d, key) ==
    LET hits == {i \in 1..Len(d.metadata) : d.metadata[i].key = key}
    IN  IF key = NULL \/ hits = {} THEN NULL
        ELSE d.metadata[CHOOSE i \in hits : \A j \in hits : i >= j].value

\* get_metadata on a Document d that is not NULL.
get_metadata(d, key) ==
    LET hits == {i \in 1..Len(d.metadata) : d.metadata[i].key = key}
    IN  IF key = NULL \/ hits = {} THEN NULL
        ELSE d.metadata[CHOOSE i \in hits : \A j \in hits : i <= j].value

\* get_metadata on the caller's Document pointer docp, <<>> (NULL) or <<d>>.
GetMetadata(docp, key) ==
    IF docp = <<>> THEN NULL ELSE get_metadata(docp[1], key)

RECURSIVE parse_metadata_string(_, _, _, _)
parse_metadata_string(d, metadata_str, line_start, heap) ==
    IF line_start >= Len(metadata_str) THEN [doc |-> d, crash |-> FALSE]
    ELSE
    LET line_end == find(metadata_str, line_start, Len(metadata_str), {LF})
        line == trim_whitespace(Bytes(metadata_str, line_start, line_end))
        added == IF line # <<>> /\ line[1] # HASH
                 THEN add_metadata(d, extract_key(line), extract_value(line), heap)
                 ELSE [doc |-> d, crash |-> FALSE]
    IN  IF added.crash THEN added
        ELSE IF line_end < Len(metadata_str)
        THEN parse_metadata_string(added.doc, metadata_str, line_end + 1, heap)
        ELSE added

parse_metadata_node(d, node, heap) ==
    IF node.type # NODE_METADATA \/ node.content = NULL
    THEN [doc |-> d, crash |-> FALSE]
    ELSE parse_metadata_string(d, node.content, 0, heap)

---------------------------------------------------------------------------
(* The texts handed to parse_metamark.  A behaviour draws them from one    *)
(* family, fixed in its initial state.                                     *)

MaxFrags == 3
MaxHeadingFrags == 5
MaxAnnotationFrags == 5
MaxComponentFrags == 5
MaxParagraphFrags == 4
MaxCommentFrags == 5
MaxBlocks == 2
MaxAdds == 2
MaxLines == 2
MaxPairs == 17

\* The concatenations of at most n elements of F.
RECURSIVE Concats(_, _)
Concats(F, n) ==
    IF n = 0 THEN {<<>>}
    ELSE LET S == Concats(F, n - 1) IN S \cup {s \o f : s \in S, f \in F}

\* Pieces of every construct.
MixedFrags ==
    { <<HASH>>, <<SP>>, <<LOWER_A>>, <<LF>>, <<GT>>, <<LBRACKET, LBRACKET>>,
      <<RBRACKET>>, <<PERCENT, PERCENT>>, <<DASH, DASH, DASH>> }

HeadingFrags == { <<HASH>>, <<SP>>, <<LOWER_A>>, <<LOWER_B>>, <<LF>> }

AnnotationFrags == { <<GT>>, <<SP>>, <<LOWER_A>>, <<DIGIT1>>, <<COLON>>, <<LF>> }

ComponentFrags ==
    { <<LBRACKET, LBRACKET>>, <<RBRACKET>>, <<LBRACKET, LBRACKET, SLASH>>,
      <<LOWER_A>>, <<LF>>,
      <<LBRACKET, LBRACKET, LOWER_A, RBRACKET, RBRACKET>> }

ParagraphFrags ==
    { <<LOWER_A>>, <<LF>>, <<CR>>, <<HASH>>, <<GT>>, <<LBRACKET, LBRACKET>>,
      <<PERCENT, PERCENT>>, <<DASH, DASH, DASH>> }

CommentFrags == { <<PERCENT, PERCENT>>, <<PERCENT>>, <<SP>>, <<LOWER_A>>, <<LF>> }

FenceLine == <<DASH, DASH, DASH, LF>>

\* Frontmatter lines: two key/value lines, one with blanks around key and
\* value, one without a colon, a comment, an indented comment with a colon.
LineFrags ==
    { <<LOWER_A, COLON, SP, DIGIT1, LF>>,
      <<LOWER_B, COLON, LOWER_A, LF>>,
      <<SP, LOWER_B, SP, COLON, SP, DIGIT1, SP, LF>>,
      <<LOWER_A, LF>>,
      <<HASH, LOWER_A, LF>>,
      <<SP, HASH, COLON, LF>> }

\* What follows the closing fence.
Tails ==
    { <<>>, <<LF>>,
      <<LF, LOWER_B, COLON, DIGIT1, LF, DASH, DASH, DASH, LF>>,
      <<LF, HASH, SP, LOWER_A, LF>> }

FrontDocs ==
    { FenceLine \o body \o <<DASH, DASH, DASH>> \o tail :
        body \in Concats(LineFrags, MaxLines), tail \in Tails }

\* n lines "k: 1" with the distinct keys 'a', 'b', ... between two fences.
RECURSIVE PairLines(_)
PairLines(n) ==
    IF n = 0 THEN <<>>
    ELSE PairLines(n - 1) \o <<LOWER_A + n - 1, COLON, SP, DIGIT1, LF>>

PairDoc(n) == FenceLine \o PairLines(n) \o FenceLine

PairDocs == { PairDoc(n) : n \in 1..MaxPairs }

\* Well-formed blocks, each with the node it is parsed to.
DocBlocks ==
    { [text |-> <<HASH, SP, LOWER_A, LF>>,
       type |-> NODE_HEADING, content |-> <<LOWER_A>>],
      [text |-> <<LOWER_A, LF, LF>>,
       type |-> NODE_PARAGRAPH, content |-> <<LOWER_A>>],
      [text |-> <<GT, SP, LOWER_A, COLON, SP, LOWER_B, LF>>,
       type |-> NODE_ANNOTATION, content |-> <<LOWER_A>>],
      [text |-> <<PERCENT, PERCENT, LOWER_A, PERCENT, PERCENT, LF>>,
       type |-> NODE_COMMENT, content |-> <<LOWER_A>>] }

\* The sequences of at most MaxBlocks blocks.
BlockSeqs == UNION { [1..n -> DocBlocks] : n \in 0..MaxBlocks }

\* The text of a sequence of blocks.
RECURSIVE BlocksText(_)
BlocksText(B) ==
    IF B = <<>> THEN <<>>
    ELSE B[1].text \o BlocksText(SubSeq(B, 2, Len(B)))

\* Lines that start with '>' and whose type name is no identifier: two
\* without a colon (as the second line of an annotation) and one with.
BadLines ==
    { <<GT, SP, LOWER_A, SP, LOWER_B, LF>>,
      <<GT, SP, DIGIT1, LOWER_A, LF>>,
      <<GT, SP, LOWER_A, SP, LOWER_B, COLON, SP, LOWER_A, LF>> }

\* The text of test_complex_document.
ComplexDocument ==
    <<
      45, 45, 45, 10, 116, 105, 116, 108, 101, 58, 32, 67, 111, 109, 112,
      108, 101, 120, 32, 84, 101, 115, 116, 10, 100, 101, 115, 99, 114,
      105, 112, 116, 105, 111, 110, 58, 32, 65, 32, 116, 101, 115, 116, 32,
      119, 105, 116, 104, 32, 110, 101, 115, 116, 101, 100, 32, 115, 116,
      114, 117, 99, 116, 117, 114, 101, 115, 10, 45, 45, 45, 10, 10, 35,
      32, 77, 97, 105, 110, 32, 83, 101, 99, 116, 105, 111, 110, 10, 10,
      84, 104, 105, 115, 32, 105, 115, 32, 97, 32, 112, 97, 114, 97, 103,
      114, 97, 112, 104, 32, 119, 105, 116, 104, 32, 42, 42, 98, 111, 108,
      100, 42, 42, 32, 97, 110, 100, 32, 42, 105, 116, 97, 108, 105, 99,
      42, 32, 116, 101, 120, 116, 46, 10, 10, 91, 91, 100, 105, 97, 103,
      114, 97, 109, 93, 93, 10, 103, 114, 97, 112, 104, 32, 84, 68, 10, 32,
      32, 32, 32, 65, 91, 83, 116, 97, 114, 116, 93, 32, 45, 45, 62, 32,
      66, 91, 80, 114, 111, 99, 101, 115, 115, 93, 10, 32, 32, 32, 32, 66,
      32, 45, 45, 62, 32, 67, 91, 68, 101, 99, 105, 115, 105, 111, 110, 93,
      10, 32, 32, 32, 32, 67, 32, 45, 45, 62, 124, 89, 101, 115, 124, 32,
      68, 91, 65, 99, 116, 105, 111, 110, 32, 49, 93, 10, 32, 32, 32, 32,
      67, 32, 45, 45, 62, 124, 78, 111, 124, 32, 69, 91, 65, 99, 116, 105,
      111, 110, 32, 50, 93, 10, 91, 91, 47, 100, 105, 97, 103, 114, 97,
      109, 93, 93, 10, 10, 62, 32, 105, 109, 112, 111, 114, 116, 97, 110,
      116, 58, 32, 84, 104, 105, 115, 32, 105, 115, 32, 97, 32, 99, 114,
      105, 116, 105, 99, 97, 108, 32, 110, 111, 116, 101, 32, 97, 98, 111,
      117, 116, 32, 116, 104, 101, 32, 112, 114, 111, 99, 101, 115, 115,
      46, 10, 62, 32, 73, 116, 32, 115, 112, 97, 110, 115, 32, 109, 117,
      108, 116, 105, 112, 108, 101, 32, 108, 105, 110, 101, 115, 46, 10,
      10, 37, 37, 32, 84, 104, 105, 115, 32, 105, 115, 32, 97, 32, 100,
      101, 116, 97, 105, 108, 101, 100, 32, 99, 111, 109, 109, 101, 110,
      116, 32, 97, 98, 111, 117, 116, 32, 116, 104, 101, 32, 105, 109, 112,
      108, 101, 109, 101, 110, 116, 97, 116, 105, 111, 110, 32, 37, 37, 10,
      83, 111, 109, 101, 32, 105, 109, 112, 108, 101, 109, 101, 110, 116,
      97, 116, 105, 111, 110, 32, 100, 101, 116, 97, 105, 108, 115, 32,
      104, 101, 114, 101, 46, 10, 37, 37, 32, 69, 110, 100, 32, 105, 109,
      112, 108, 101, 109, 101, 110, 116, 97, 116, 105, 111, 110, 32, 99,
      111, 109, 109, 101, 110, 116, 32, 37, 37, 10, 10, 35, 35, 32, 83,
      117, 98, 115, 101, 99, 116, 105, 111, 110, 10, 10, 77, 111, 114, 101,
      32, 99, 111, 110, 116, 101, 110, 116, 32, 104, 101, 114, 101, 46, 10,
      10, 91, 91, 116, 97, 98, 108, 101, 93, 93, 10, 124, 32, 72, 101, 97,
      100, 101, 114, 32, 49, 32, 124, 32, 72, 101, 97, 100, 101, 114, 32,
      50, 32, 124, 10, 124, 45, 45, 45, 45, 45, 45, 45, 45, 45, 45, 124,
      45, 45, 45, 45, 45, 45, 45, 45, 45, 45, 124, 10, 124, 32, 67, 101,
      108, 108, 32, 49, 32, 32, 32, 124, 32, 67, 101, 108, 108, 32, 50, 32,
      32, 32, 124, 10, 91, 91, 47, 116, 97, 98, 108, 101, 93, 93, 10, 10,
      62, 32, 119, 97, 114, 110, 105, 110, 103, 58, 32, 84, 104, 105, 115,
      32, 105, 115, 32, 97, 32, 119, 97, 114, 110, 105, 110, 103, 32, 97,
      98, 111, 117, 116, 32, 116, 104, 101, 32, 116, 97, 98, 108, 101, 32,
      102, 111, 114, 109, 97, 116, 46, 10, 10, 37, 37, 32, 70, 105, 110,
      97, 108, 32, 99, 111, 109, 109, 101, 110, 116, 32, 37, 37, 10
    >>

BlockDocs ==
    { BlocksText(B1) \o bad \o BlocksText(B2) :
        B1 \in BlockSeqs, bad \in BadLines, B2 \in BlockSeqs }
    \cup {ComplexDocument}

\* A frontmatter block that gives the key 'a' twice.
DuplicateDoc ==
    FenceLine \o <<LOWER_A, COLON, SP, DIGIT1, LF>>
              \o <<LOWER_A, COLON, SP, LOWER_B, LF>> \o FenceLine

\* Keys and values the caller passes to add_metadata and get_metadata.
MetaKeys == { <<LOWER_A>>, <<LOWER_B>>, NULL }
MetaValues == { <<DIGIT1>>, <<LOWER_B>>, NULL }

MetaDocs == PairDocs \cup { DuplicateDoc, <<LOWER_A>>, <<HASH>> }

Families ==
    {"mixed", "heading", "annotation", "component", "paragraph", "frontmatter",
     "comment", "blocks", "metadata"}

Inputs(f) ==
    CASE f = "mixed" -> Concats(MixedFrags, MaxFrags)
      [] f = "heading" -> Concats(HeadingFrags, MaxHeadingFrags)
      [] f = "annotation" -> Concats(AnnotationFrags, MaxAnnotationFrags)
      [] f = "component" -> Concats(ComponentFrags, MaxComponentFrags)
      [] f = "paragraph" -> Concats(ParagraphFrags, MaxParagraphFrags)
      [] f = "frontmatter" -> FrontDocs \cup PairDocs
      [] f = "comment" -> Concats(CommentFrags, MaxCommentFrags)
      [] f = "blocks" -> BlockDocs
      [] f = "metadata" -> MetaDocs

---------------------------------------------------------------------------
(* parser.c: parse_metamark, and its caller *)

\* How the behaviours the C standard leaves open turn out in one step.
UB == [fence : BOOLEAN, malloc0 : BOOLEAN]

\* A variant of set_errors in which a routine that met no failure records
\* None.
set_errors_Reset(errs) ==
    /\ errLog' = errLog \o errs
    /\ last_error' = IF errs = <<>> THEN MM_ERROR_NONE ELSE errs[Len(errs)].code

\* set_error for every entry of errs, in order.
set_errors(errs) ==
    /\ errLog' = errLog \o errs
    /\ last_error' = IF errs = <<>> THEN last_error ELSE errs[Len(errs)].code

NoLexer == lexer_init(<<>>)

InitIn(f) ==
    /\ family = f
    /\ pc = "idle"
    /\ arg = <<>>
    /\ lexer = NoLexer
    /\ doc = <<>>
    /\ last_error = MM_ERROR_NONE
    /\ errLog = <<>>
    /\ progress = 0
    /\ adds = 0
    /\ error_before = MM_ERROR_NONE
    /\ token_value = <<>>
    /\ nodes = <<>>
    /\ label = <<>>

\* A variant of ParseNull that reports the absent text as a Syntax error.
ParseNull_AsSyntax ==
    /\ pc = "idle"
    /\ arg' = NULL
    /\ errLog' = <<[code |-> MM_ERROR_SYNTAX, by |-> "parse_metamark"]>>
    /\ last_error' = MM_ERROR_SYNTAX
    /\ pc' = "done"
    /\ error_before' = last_error
    /\ nodes' = <<>>
    /\ UNCHANGED <<lexer, doc, progress, family, adds, token_value, label>>

\* parse_metamark(NULL): parser.c 538-541.
ParseNull ==
    /\ pc = "idle"
    /\ arg' = NULL
    /\ errLog' = <<[code |-> MM_ERROR_INVALID, by |-> "parse_metamark"]>>
    /\ last_error' = MM_ERROR_INVALID
    /\ pc' = "done"
    /\ error_before' = last_error
    /\ nodes' = <<>>
    /\ UNCHANGED <<lexer, doc, progress, family, adds, token_value, label>>

\* A parse_metamark that clears the last-error slot once its argument is
\* accepted.
ParseEnter_ClearsError(text) ==
    LET start == span(text, 0, Len(text), Space)
        input == Bytes(text, start, Len(text))
    IN  /\ pc = "idle"
        /\ UNCHANGED <<family, adds, token_value, label>>
        /\ error_before' = last_error
        /\ arg' = text
        /\ progress' = 0
        /\ IF input = <<>>
           THEN /\ errLog' = Syntax("parse_metamark")
                /\ last_error' = MM_ERROR_SYNTAX
                /\ pc' = "done"
                /\ nodes' = <<>>
                /\ UNCHANGED <<lexer, doc>>
           ELSE /\ errLog' = <<>>
                /\ lexer' = lexer_init(input)
                /\ doc' = <<[root |-> create_node(NODE_DOCUMENT, NULL),
                             metadata |-> <<>>, capacity |-> 0]>>
                /\ nodes' = create_node_at(<<>>, NODE_DOCUMENT, NULL)
                /\ pc' = "front"
                /\ last_error' = MM_ERROR_NONE

\* parse_metamark(text) up to the frontmatter test: parser.c 538-572.
ParseEnter(text) ==
    LET start == span(text, 0, Len(text), Space)
        input == Bytes(text, start, Len(text))
    IN  /\ pc = "idle"
        /\ UNCHANGED <<family, adds, token_value, label>>
        /\ error_before' = last_error
        /\ arg' = text
        /\ progress' = 0
        /\ IF input = <<>>
           THEN /\ errLog' = Syntax("parse_metamark")
                /\ last_error' = MM_ERROR_SYNTAX
                /\ pc' = "done"
                /\ nodes' = <<>>
                /\ UNCHANGED <<lexer, doc>>
           ELSE /\ errLog' = <<>>
                /\ lexer' = lexer_init(input)
                /\ doc' = <<[root |-> create_node(NODE_DOCUMENT, NULL),
                             metadata |-> <<>>, capacity |-> 0]>>
                /\ nodes' = create_node_at(<<>>, NODE_DOCUMENT, NULL)
                /\ pc' = "front"
                /\ UNCHANGED last_error

\* parse_metamark(text) when malloc(sizeof(Document)) or the root's
\* create_node returns NULL: parser.c 543-572.
ParseNoMemory(text) ==
    LET start == span(text, 0, Len(text), Space)
        input == Bytes(text, start, Len(text))
    IN  /\ pc = "idle"
        /\ input # <<>>
        /\ arg' = text
        /\ progress' = 0
        /\ error_before' = last_error
        /\ errLog' = <<[code |-> MM_ERROR_MEMORY, by |-> "parse_metamark"]>>
        /\ last_error' = MM_ERROR_MEMORY
        /\ pc' = "done"
        /\ nodes' = <<>>
        /\ UNCHANGED <<lexer, doc, family, adds, token_value, label>>

FrontmatterRegistered(d1, d2) ==
    IF d2.crash
    THEN doc' = <<d1>> /\ pc' = "crashed"
    ELSE doc' = <<d2.doc>> /\ pc' = "loop"

\* parse_metadata_node on the Document d1 that holds the Metadata node:
\* parser.c 580.
FrontmatterPairs(d1, node, heap) ==
    FrontmatterRegistered(d1, parse_metadata_node(d1, node, heap))

\* What parse_metamark does with the result r of parse_metadata on the
\* leading block: parser.c 576-582.
FrontmatterNode(r, heap) ==
    /\ lexer' = r.lexer
    /\ set_errors(r.errs)
    /\ IF r.node = <<>>
       THEN doc' = doc /\ pc' = "loop" /\ nodes' = calls(nodes, r.calls)
       ELSE /\ nodes' = add_child_at(calls(nodes, r.calls), RootAddress,
                                     Len(nodes) + r.ptr)
            /\ FrontmatterPairs([doc[1] EXCEPT !.root = add_child(@, r.node[1])],
                                r.node[1], heap)

\* The frontmatter block, if the text starts with a fence: parser.c 574-583.
Frontmatter(ub, heap) ==
    /\ pc = "front"
    /\ IF at_fence(lexer)
       THEN FrontmatterNode(parse_metadata(lexer, ub.fence, ub.malloc0), heap)
       ELSE /\ pc' = "loop"
            /\ UNCHANGED <<lexer, doc, last_error, errLog, nodes>>
    /\ UNCHANGED <<arg, progress, family, adds, error_before, token_value, label>>

\* What the document loop does with the result r of parse_node:
\* parser.c 588-595.
LoopNode(r) ==
    /\ progress' = lexer.pos
    /\ set_errors(r.errs)
    /\ IF r.crash
       THEN /\ pc' = "crashed"
            /\ lexer' = r.lexer
            /\ doc' = doc
            /\ nodes' = calls(nodes, r.calls)
       ELSE /\ pc' = "loop"
            /\ IF r.node # <<>>
               THEN /\ doc' = <<[doc[1] EXCEPT !.root = add_child(@, r.node[1])]>>
                    /\ nodes' = add_child_at(calls(nodes, r.calls), RootAddress,
                                             Len(nodes) + r.ptr)
                    /\ lexer' = r.lexer
               ELSE /\ doc' = doc
                    /\ nodes' = calls(nodes, r.calls)
                    /\ lexer' = skip_in(r.lexer, Space)

\* One iteration of the document loop: parser.c 586-596.
LoopIter(ub) ==
    /\ pc = "loop"
    /\ peek(lexer) # NUL
    /\ LoopNode(parse_node(lexer, ub))
    /\ UNCHANGED <<arg, family, adds, error_before, token_value, label>>

\* A variant of Verify that gives up a root without children and returns
\* NULL without reporting an error.
Verify_Silent ==
    /\ pc = "loop"
    /\ peek(lexer) = NUL
    /\ IF Len(doc[1].root.children) = 0
       THEN /\ doc' = <<>>
            /\ nodes' = free_document(nodes, doc, TRUE).nodes
            /\ UNCHANGED <<last_error, errLog>>
       ELSE /\ UNCHANGED <<doc, last_error, errLog, nodes>>
    /\ pc' = "done"
    /\ UNCHANGED <<arg, lexer, progress, family, adds, error_before, token_value, label>>

\* A variant of Verify without the structure check: the Document is
\* returned whatever the root holds.
Verify_Unchecked ==
    /\ pc = "loop"
    /\ peek(lexer) = NUL
    /\ pc' = "done"
    /\ UNCHANGED <<arg, lexer, doc, last_error, errLog, progress, family, adds,
                   error_before, token_value, label, nodes>>

\* End of input: the structure check and the return, parser.c 598-607.
Verify ==
    /\ pc = "loop"
    /\ peek(lexer) = NUL
    /\ IF Len(doc[1].root.children) = 0
       THEN /\ set_errors(Syntax("parse_metamark"))
            /\ doc' = <<>>
            /\ nodes' = free_document(nodes, doc, TRUE).nodes
       ELSE /\ UNCHANGED <<doc, last_error, errLog, nodes>>
    /\ pc' = "done"
    /\ UNCHANGED <<arg, lexer, progress, family, adds, error_before, token_value, label>>

\* The caller is done with the result: free_document(doc), ast.c 68-84.
\* Nothing of the call is left after it.
Release(heap) ==
    /\ pc = "done"
    /\ IF free_document(nodes, doc, heap).crash
       THEN /\ pc' = "crashed"
            /\ UNCHANGED <<arg, lexer, doc, errLog, progress, adds, nodes, label>>
       ELSE /\ pc' = "idle"
            /\ arg' = <<>>
            /\ lexer' = NoLexer
            /\ doc' = <<>>
            /\ errLog' = <<>>
            /\ progress' = 0
            /\ adds' = 0
            /\ nodes' = <<>>
            /\ label' = <<>>
    /\ UNCHANGED <<last_error, family, error_before, token_value>>

\* The caller's add_metadata(doc, key, value) on the result of the last
\* parse_metamark call, a Document or NULL: metadata.c 54-80.
AddMetadata(key, value, heap) ==
    /\ pc = "done"
    /\ adds < MaxAdds
    /\ adds' = adds + 1
    /\ IF doc = <<>>
       THEN UNCHANGED <<doc, pc>>
       ELSE LET r == add_metadata(doc[1], key, value, heap)
            IN  IF r.crash
                THEN pc' = "crashed" /\ doc' = doc
                ELSE pc' = pc /\ doc' = <<r.doc>>
    /\ UNCHANGED <<arg, lexer, last_error, errLog, progress, family,
                   error_before, token_value, label, nodes>>

Next ==
    \/ ParseNull
    \/ pc = "idle" /\ \E text \in Inputs(family) : ParseEnter(text)
    \/ \E ub \in UB, heap \in BOOLEAN : Frontmatter(ub, heap)
    \/ \E ub \in UB : LoopIter(ub)
    \/ Verify
    \/ \E heap \in BOOLEAN : Release(heap)

Init == InitIn("mixed")
InitHeading == InitIn("heading")
InitAnnotation == InitIn("annotation")
InitComponent == InitIn("component")
InitParagraph == InitIn("paragraph")
InitFrontmatter == InitIn("frontmatter")
InitComment == InitIn("comment")
InitBlocks == InitIn("blocks")
InitMetadata == InitIn("metadata")

Spec == Init /\ [][Next]_vars
SpecHeading == InitHeading /\ [][Next]_vars
SpecAnnotation == InitAnnotation /\ [][Next]_vars
SpecComponent == InitComponent /\ [][Next]_vars
SpecParagraph == InitParagraph /\ [][Next]_vars
SpecFrontmatter == InitFrontmatter /\ [][Next]_vars
SpecComment == InitComment /\ [][Next]_vars
SpecBlocks == InitBlocks /\ [][Next]_vars

\* parse_metamark calls, each followed by the caller's add_metadata calls.
NextMetadata ==
    \/ Next
    \/ \E key \in MetaKeys, value \in MetaValues, heap \in BOOLEAN :
          AddMetadata(key, value, heap)

SpecMetadata == InitMetadata /\ [][NextMetadata]_vars

\* The caller asks for the label of a node kind, while it holds the result
\* of a parse_metamark call: ast.c 109-130.
NodeTypeToString(type) ==
    /\ pc = "done"
    /\ label' = <<[type |-> type, label |-> node_type_to_string(type)]>>
    /\ UNCHANGED <<pc, arg, lexer, doc, last_error, errLog, progress, family, adds,
                   error_before, token_value, nodes>>

NextLabel ==
    \/ Next
    \/ \E type \in NodeType : NodeTypeToString(type)

SpecLabel == InitFrontmatter /\ [][NextLabel]_vars

\* The parser with allocations that may fail at the start of parse_metamark.
NextMemory ==
    \/ Next
    \/ pc = "idle" /\ \E text \in Inputs(family) : ParseNoMemory(text)

SpecMemory == Init /\ [][NextMemory]_vars

\* The steps of a running parse_metamark call before its last one.
ParseStep ==
    \/ \E ub \in UB, heap \in BOOLEAN : Frontmatter(ub, heap)
    \/ \E ub \in UB : LoopIter(ub)

\* The guard of ParseStep: the call is at the frontmatter test, or in the
\* document loop with its condition peek(&lexer) != '\0' true.
ParseStepGuard == pc = "front" \/ (pc = "loop" /\ peek(lexer) # NUL)

\* parse_metamark is sequential code: a call that has begun takes its next
\* step until it returns or the process dies.  That is weak fairness of
\* Verify and of ParseStep; the latter is written out, with the guard of
\* ParseStep for ENABLED <<ParseStep>>_vars.
ParseFairness ==
    /\ WF_vars(Verify)
    /\ ([]<>(~ParseStepGuard) \/ []<><<ParseStep>>_vars)

SpecLive == Init /\ [][Next]_vars /\ ParseFairness

\* read_token_value on its own: a lexer on a short text, and calls with
\* every start within the text and every end up to one past its length.
MaxTextLen == 3

ExtractTexts == Concats({ <<LOWER_A>>, <<LOWER_B>> }, MaxTextLen)

InitExtract ==
    /\ family = "extract"
    /\ pc = "extract"
    /\ arg \in ExtractTexts
    /\ lexer = lexer_init(arg)
    /\ doc = <<>>
    /\ last_error = MM_ERROR_NONE
    /\ errLog = <<>>
    /\ progress = 0
    /\ adds = 0
    /\ error_before = MM_ERROR_NONE
    /\ token_value = <<>>
    /\ nodes = <<>>
    /\ label = <<>>

ReadTokenValue(start, end, malloc0) ==
    /\ pc = "extract"
    /\ token_value' = <<[start |-> start, end |-> end,
                        result |-> read_token_value(lexer, start, end, malloc0)]>>
    /\ UNCHANGED <<pc, arg, lexer, doc, last_error, errLog, progress, family, adds,
                   error_before, nodes, label>>

NextExtract ==
    \E start \in 0..lexer.length, end \in 0..(lexer.length + 1), malloc0 \in BOOLEAN :
        ReadTokenValue(start, end, malloc0)

SpecExtract == InitExtract /\ [][NextExtract]_vars

\* next_token on its own: pulls on a lexer over a short text, from the
\* start of the text to its end.
MaxTokenFrags == 3

TokenFrags ==
    { <<SP>>, <<LF>>, <<LOWER_A>>, <<HASH>>, <<DASH, DASH, DASH>>, <<LBRACKET>>,
      <<RBRACKET>>, <<AT>>, <<PERCENT>> }

InitToken ==
    /\ family = "token"
    /\ pc = "token"
    /\ arg \in Concats(TokenFrags, MaxTokenFrags)
    /\ lexer = lexer_init(arg)
    /\ doc = <<>>
    /\ last_error = MM_ERROR_NONE
    /\ errLog = <<>>
    /\ progress = 0
    /\ adds = 0
    /\ error_before = MM_ERROR_NONE
    /\ token_value = <<>>
    /\ nodes = <<>>
    /\ label = <<>>

\* One pull.  token_value records where the cursor stood once the white
\* space was skipped, where the pull left it, and the bytes in between.
NextToken(fence) ==
    /\ pc = "token"
    /\ lexer' = next_token(lexer, fence)
    /\ token_value' =
            <<[start |-> skip_whitespace(lexer).pos, end |-> lexer'.pos,
               result |-> read_token_value(lexer, skip_whitespace(lexer).pos,
                                           lexer'.pos, TRUE)]>>
    /\ UNCHANGED <<pc, arg, doc, last_error, errLog, progress, family, adds,
                   error_before, nodes, label>>

NextPull == \E fence \in BOOLEAN : NextToken(fence)

SpecToken == InitToken /\ [][NextPull]_vars

---------------------------------------------------------------------------
(* Vocabulary of the claims *)

Returned == pc = "done"
ReturnedDocument == pc = "done" /\ doc # <<>>
ReturnedNothing == pc = "done" /\ doc = <<>>
Root == doc[1].root

\* A construct routine (not parse_metamark itself) called set_error.
ConstructFailed ==
    \E i \in 1..Len(errLog) : errLog[i].by # "parse_metamark"

\* set_error(code) was the last set_error call of the current call.
LastSet(code) == errLog # <<>> /\ errLog[Len(errLog)].code = code /\ last_error = code

\* pat stands in s at the 0-based position i.
OccursAt(pat, s, i) ==
    /\ i + Len(pat) <= Len(s)
    /\ \A k \in 1..Len(pat) : s[i + k] = pat[k]

\* pat stands in s somewhere at or after position from.
OccursFrom(pat, s, from) == \E i \in from..Len(s) : OccursAt(pat, s, i)

AllIn(s, S) == \A i \in 1..Len(s) : s[i] \in S

---------------------------------------------------------------------------
C3_Unterminated(s) ==
    \/ OccursAt(<<DASH, DASH, DASH>>, s, 0) /\ ~OccursFrom(<<DASH, DASH, DASH>>, s, 3)
    \/ OccursAt(<<LBRACKET, LBRACKET>>, s, 0) /\ ~OccursFrom(<<RBRACKET, RBRACKET>>, s, 2)
    \/ /\ OccursAt(<<LBRACKET, LBRACKET>>, s, 0)
       /\ \E i \in 2..Len(s) :
            /\ OccursAt(<<RBRACKET, RBRACKET>>, s, i)
            /\ \A j \in 3..i : s[j] # RBRACKET
            /\ ~OccursFrom(<<LBRACKET, LBRACKET, SLASH>>, s, i + 2)
    \/ OccursAt(<<PERCENT, PERCENT>>, s, 0) /\ ~OccursFrom(<<PERCENT, PERCENT>>, s, 2)
    \/ /\ OccursAt(<<GT, SP>>, s, 0)
       /\ \A i \in 1..Len(s) : s[i] = LF => i = Len(s)
       /\ \A i \in 1..Len(s) : s[i] # COLON
       /\ \E i \in 3..Len(s) : s[i] \in Space \ {LF}
       /\ s[3] \notin Space

\* C3 (as stated): on such a text parse_metamark returns no Document and
\* the last error is Syntax.
C3_MalformedOnlyBlock ==
    (Returned /\ arg # NULL /\ C3_Unterminated(arg))
        => (doc = <<>> /\ last_error = MM_ERROR_SYNTAX)


\* C4 (as stated): a text that is only a frontmatter block of n >= 1 lines
\* "key: value" with distinct keys parses to a Document whose root has one
\* child, a Metadata node with n Paragraph children in line order, and
\* get_metadata returns every line's value for its key.
C4_FrontmatterPairs ==
    \A n \in 1..MaxPairs :
        (arg = PairDoc(n) /\ pc \in {"done", "crashed"}) =>
            /\ pc = "done"
            /\ doc # <<>>
            /\ Len(Root.children) = 1
            /\ Root.children[1].type = NODE_METADATA
            /\ Len(Root.children[1].children) = n
            /\ \A i \in 1..n :
                /\ Root.children[1].children[i].type = NODE_PARAGRAPH
                /\ Root.children[1].children[i].content = <<LOWER_A + i - 1, COLON, DIGIT1>>
                /\ get_metadata(doc[1], <<LOWER_A + i - 1>>) = <<DIGIT1>>

\* The frontmatter block of s (between the leading fence and the next one)
\* has a line that starts with a byte other than '#' and white space and
\* holds no colon.
C5_BadLine(s) ==
    /\ OccursAt(<<DASH, DASH, DASH>>, s, 0)
    /\ \E c \in 3..Len(s) :
        /\ OccursAt(<<DASH, DASH, DASH>>, s, c)
        /\ ~\E c0 \in 3..(c - 1) : OccursAt(<<DASH, DASH, DASH>>, s, c0)
        /\ \E a \in 3..c : \E b \in (a + 1)..c :
            /\ a = 3 \/ s[a] = LF
            /\ b = c \/ s[b + 1] = LF
            /\ \A k \in (a + 1)..b : s[k] \notin {LF, COLON}
            /\ s[a + 1] \notin Space \cup {HASH}

\* C5 (as stated): with such a line in the leading frontmatter block,
\* parse_metamark returns no Document and the last error is Syntax,
\* whatever follows the block's closing fence.
C5_FrontmatterAbort ==
    (Returned /\ arg # NULL /\ C5_BadLine(arg))
        => (doc = <<>> /\ last_error = MM_ERROR_SYNTAX)

\* A valid identifier as the specification words it.
C6_IsIdentifier(t) ==
    /\ t # <<>>
    /\ t[1] \in (65..90) \cup (97..122) \cup {95}
    /\ \A i \in 2..Len(t) : t[i] \in (48..57) \cup (65..90) \cup (97..122) \cup {95}

Blank == {SP, HT}

\* The last position of the only line of s, its newline excluded.
LineEnd(s) == IF s # <<>> /\ s[Len(s)] = LF THEN Len(s) - 1 ELSE Len(s)

\* s is one line "> T" or "> T: ..." whose type name T is s[p+1..q].
AnnotationLine(s, p, q) ==
    /\ s # <<>> /\ s[1] = GT
    /\ \A k \in 1..LineEnd(s) : s[k] # LF
    /\ p >= 1 /\ p < q /\ q <= LineEnd(s)
    /\ \A k \in 2..p : s[k] \in Blank
    /\ s[p + 1] \notin Blank
    /\ \A k \in (p + 1)..q : s[k] # COLON
    /\ q = LineEnd(s) \/ s[q + 1] = COLON

\* C6 (as stated): a text that is one annotation line whose type name is
\* not a valid identifier yields no Document and last error Syntax, also
\* when a colon and more text follow the type name.
C6_InvalidAnnotation ==
    (Returned /\ arg # NULL /\
        \E p \in 1..Len(arg) : \E q \in 1..Len(arg) :
            AnnotationLine(arg, p, q) /\ ~C6_IsIdentifier(SubSeq(arg, p + 1, q)))
        => (doc = <<>> /\ last_error = MM_ERROR_SYNTAX)

\* s is one line of k '#' bytes, blanks, and the non-empty text s[p+1..e].
HeadingLine(s, k, p) ==
    /\ k >= 1 /\ k <= p /\ p < LineEnd(s)
    /\ \A i \in 1..k : s[i] = HASH
    /\ \A i \in (k + 1)..p : s[i] \in Blank
    /\ s[p + 1] \notin Blank \cup {HASH}
    /\ \A i \in 1..LineEnd(s) : s[i] # LF

\* C7 (as stated): such a line yields a Heading node with level k and the
\* text as content, whether the line ends with a newline or at end of input.
C7_Heading ==
    \A k \in 1..Len(arg) : \A p \in 1..Len(arg) :
        (Returned /\ arg # NULL /\ HeadingLine(arg, k, p)) =>
            /\ doc # <<>>
            /\ Len(Root.children) = 1
            /\ Root.children[1].type = NODE_HEADING
            /\ Root.children[1].level = k
            /\ Root.children[1].content = SubSeq(arg, p + 1, LineEnd(arg))


\* A construct-starting byte sequence stands in s at the 0-based position i.
C8_ConstructStart(s, i) ==
    /\ i < Len(s)
    /\ \/ s[i + 1] = HASH
       \/ OccursAt(<<LBRACKET, LBRACKET>>, s, i)
       \/ s[i + 1] = GT /\ ~OccursAt(<<GT, GT>>, s, i)
       \/ OccursAt(<<PERCENT, PERCENT>>, s, i)
       \/ OccursAt(<<DASH, DASH, DASH>>, s, i)

\* The step appends a Paragraph to the root.
C8_ParagraphAppended ==
    /\ pc = "loop" /\ pc' = "loop"
    /\ Len(doc'[1].root.children) = Len(doc[1].root.children) + 1
    /\ doc'[1].root.children[Len(doc'[1].root.children)].type = NODE_PARAGRAPH

\* Where the paragraph of such a step starts: the first byte at or after
\* the cursor that is no white space.
C8_Start ==
    CHOOSE p \in lexer.pos..lexer.length :
        /\ \A k \in (lexer.pos + 1)..p : lexer.input[k] \in Space
        /\ p = lexer.length \/ lexer.input[p + 1] \notin Space

\* Where its content ends.
C8_End == C8_Start + Len(doc'[1].root.children[Len(doc'[1].root.children)].content)

\* The content is the input from C8_Start to C8_End, the bytes from there
\* to the new cursor are newlines, and among them stand two '\n' in a row.
C8_Verbatim ==
    /\ C8_End <= lexer'.pos
    /\ doc'[1].root.children[Len(doc'[1].root.children)].content
         = SubSeq(lexer.input, C8_Start + 1, C8_End)
    /\ \A k \in (C8_End + 1)..lexer'.pos : lexer.input[k] \in Newlines

C8_TwoNewlines ==
    \E k \in (C8_End + 1)..(lexer'.pos - 1) :
        lexer.input[k] = LF /\ lexer.input[k + 1] = LF

C8_AtEnd == lexer'.pos = lexer.length

\* C8 (as stated): a paragraph ends only at end of input, at two
\* consecutive newlines, or at a construct-starting byte sequence that
\* stands at the beginning of a line.
C8_EndsAtLineStart ==
    [][ C8_ParagraphAppended =>
          \/ C8_AtEnd
          \/ C8_TwoNewlines
          \/ /\ C8_ConstructStart(lexer.input, lexer'.pos)
             /\ lexer'.pos > 0
             /\ lexer.input[lexer'.pos] \in Newlines
      ]_vars

\* C8 (amended): a paragraph ends only at end of input, at two consecutive
\* newlines, or at a construct-starting byte sequence wherever it stands
\* in its line; its content is the input bytes up to there verbatim, less
\* the trailing newlines, and no construct-starting sequence and no pair
\* of consecutive newlines stands before its end.
C8_EndsAtConstructStart ==
    [][ C8_ParagraphAppended =>
          /\ C8_Verbatim
          /\ C8_AtEnd \/ C8_TwoNewlines \/ C8_ConstructStart(lexer.input, lexer'.pos)
          /\ \A i \in C8_Start..(C8_End - 1) :
                /\ ~C8_ConstructStart(lexer.input, i)
                /\ ~OccursAt(<<LF, LF>>, SubSeq(lexer.input, 1, C8_End), i)
      ]_vars

\* A paragraph ended in the middle of a line, at a construct start.
C8_Witness ==
    /\ pc = "loop"
    /\ Len(Root.children) >= 1
    /\ Root.children[Len(Root.children)].type = NODE_PARAGRAPH
    /\ lexer.pos > 0
    /\ lexer.input[lexer.pos] \notin Newlines
    /\ C8_ConstructStart(lexer.input, lexer.pos)
    /\ Root.children[Len(Root.children)].content
         = SubSeq(lexer.input, progress + 1, lexer.pos)

\* s is "[[T]]", one optional newline, a body and "[[/": T is s[3..i],
\* the body is s[b+1..j].
ComponentText(s, i, b, j) ==
    /\ OccursAt(<<LBRACKET, LBRACKET>>, s, 0)
    /\ i >= 3
    /\ OccursAt(<<RBRACKET, RBRACKET>>, s, i)
    /\ \A k \in 3..i : s[k] \notin {RBRACKET, LBRACKET, LF}
    /\ b = (IF i + 2 < Len(s) /\ s[i + 3] = LF THEN i + 3 ELSE i + 2)
    /\ j >= b
    /\ OccursAt(<<LBRACKET, LBRACKET, SLASH>>, s, j)
    /\ ~\E j0 \in b..(j - 1) : OccursAt(<<LBRACKET, LBRACKET, SLASH>>, s, j0)

\* C9 (as stated): such a text yields a Component node with content T and
\* one Paragraph child holding the body verbatim, or no child when the
\* body is empty.
C9_Component ==
    \A i \in 1..Len(arg) : \A b \in 1..Len(arg) : \A j \in 1..Len(arg) :
        (Returned /\ arg # NULL /\ ComponentText(arg, i, b, j)) =>
            /\ doc # <<>>
            /\ Root.children[1].type = NODE_COMPONENT
            /\ Root.children[1].content = SubSeq(arg, 3, i)
            /\ IF j = b
               THEN Len(Root.children[1].children) = 0
               ELSE /\ Len(Root.children[1].children) = 1
                    /\ Root.children[1].children[1].type = NODE_PARAGRAPH
                    /\ Root.children[1].children[1].content = SubSeq(arg, b + 1, j)

\* C10 (as stated): a line "> T" with T a valid identifier yields an
\* Annotation node with content T, with one Paragraph child holding what
\* follows the colon and the blanks after it when that is not empty, and
\* with no child when there is no colon or nothing follows it.
C10_Annotation ==
    \A p \in 1..Len(arg) : \A q \in 1..Len(arg) :
        (Returned /\ arg # NULL /\ AnnotationLine(arg, p, q)
                  /\ C6_IsIdentifier(SubSeq(arg, p + 1, q))) =>
            /\ doc # <<>>
            /\ Len(Root.children) = 1
            /\ Root.children[1].type = NODE_ANNOTATION
            /\ Root.children[1].content = SubSeq(arg, p + 1, q)
            /\ \A r \in q..LineEnd(arg) :
                 ( /\ \A k \in (q + 2)..r : arg[k] \in Blank
                   /\ r = LineEnd(arg) \/ arg[r + 1] \notin Blank
                   /\ r > q \/ q = LineEnd(arg) ) =>
                    IF r = LineEnd(arg)
                    THEN Len(Root.children[1].children) = 0
                    ELSE /\ Len(Root.children[1].children) = 1
                         /\ Root.children[1].children[1].type = NODE_PARAGRAPH
                         /\ Root.children[1].children[1].content
                              = SubSeq(arg, r + 1, LineEnd(arg))


\* The body b of a comment without its leading blanks and its trailing
\* white space.
C11_Trimmed(b) ==
    LET lo == CHOOSE p \in 0..Len(b) :
                /\ \A k \in 1..p : b[k] \in Blank
                /\ p = Len(b) \/ b[p + 1] \notin Blank
        hi == CHOOSE q \in lo..Len(b) :
                /\ \A k \in (q + 1)..Len(b) : b[k] \in Space
                /\ q = lo \/ b[q] \notin Space
    IN  SubSeq(b, lo + 1, hi)

\* s starts with "%%" and its next "%%" stands at position j.
CommentText(s, j) ==
    /\ OccursAt(<<PERCENT, PERCENT>>, s, 0)
    /\ j >= 2
    /\ OccursAt(<<PERCENT, PERCENT>>, s, j)
    /\ ~\E j0 \in 2..(j - 1) : OccursAt(<<PERCENT, PERCENT>>, s, j0)

\* C11: for "%%" body "%%" the parser makes a Comment node whose content is
\* the body without its leading blanks and without its trailing white
\* space; when nothing remains the content is the empty string, not NULL.
C11_Comment ==
    \A j \in 2..Len(arg) :
        (Returned /\ arg # NULL /\ CommentText(arg, j)) =>
            /\ doc # <<>>
            /\ Root.children[1].type = NODE_COMMENT
            /\ Root.children[1].content # NULL
            /\ Root.children[1].content = C11_Trimmed(SubSeq(arg, 3, j))
            /\ Len(Root.children[1].children) = 0

\* "%% %%" and a newline have been parsed to a Comment with empty content.
C11_Witness ==
    /\ ReturnedDocument
    /\ arg = <<PERCENT, PERCENT, SP, PERCENT, PERCENT, LF>>
    /\ Root.children[1].type = NODE_COMMENT
    /\ Root.children[1].content = <<>>


\* The bytes c stand in s somewhere between the positions from and to.
C12_Within(c, s, from, to) ==
    \E a \in from..to : a + Len(c) <= to /\ OccursAt(c, s, a)

\* C12: the root's children stand in the order of their blocks in the
\* input.  Every step of parse_metamark moves the cursor forward over the
\* same input and either leaves the root's children alone or appends one
\* child after the others, whose content was read from the bytes the step
\* consumed; a step that consumes only white space appends nothing.
C12_OrderPreserved ==
    [][ (pc \in {"front", "loop"} /\ pc' = "loop") =>
          LET old == doc[1].root.children
              new == doc'[1].root.children
          IN  /\ lexer'.input = lexer.input
              /\ lexer'.pos >= lexer.pos
              /\ \/ new = old
                 \/ /\ Len(new) = Len(old) + 1
                    /\ SubSeq(new, 1, Len(old)) = old
                    /\ lexer'.pos > lexer.pos
                    /\ new[Len(new)].content # NULL
                    /\ C12_Within(new[Len(new)].content, lexer.input,
                                  lexer.pos, lexer'.pos)
                    /\ \E k \in (lexer.pos + 1)..lexer'.pos :
                          lexer.input[k] \notin Space
      ]_vars

\* Two paragraphs with a blank line between them, in input order.
C12_Witness ==
    /\ ReturnedDocument
    /\ arg = <<LOWER_A, LF, LF, LOWER_A>>
    /\ Len(Root.children) = 2
    /\ Root.children[1].type = NODE_PARAGRAPH
    /\ Root.children[2].type = NODE_PARAGRAPH


\* The root's children are the nodes of the blocks B, in order.
C13_ChildrenAre(B) ==
    /\ doc # <<>>
    /\ Len(Root.children) = Len(B)
    /\ \A i \in 1..Len(B) :
        /\ Root.children[i].type = B[i].type
        /\ Root.children[i].content = B[i].content

\* C13 (as stated): a line that starts with '>' and whose type name is no
\* valid identifier yields no node, the well-formed blocks before and
\* after it are the root's children in input order, and the text of
\* test_complex_document yields 13 root children.
C13_ContinuationLine ==
    /\ \A B1 \in BlockSeqs : \A B2 \in BlockSeqs : \A bad \in BadLines :
        (Returned /\ arg = BlocksText(B1) \o bad \o BlocksText(B2)
                  /\ Len(B1) + Len(B2) >= 1)
            => C13_ChildrenAre(B1 \o B2)
    /\ (Returned /\ arg = ComplexDocument)
            => (doc # <<>> /\ Len(Root.children) = 13)


\* The value of the first pair of the table t whose key is key, or NULL.
C14_First(t, key) ==
    IF \E i \in 1..Len(t) : t[i].key = key
    THEN t[CHOOSE i \in 1..Len(t) :
                /\ t[i].key = key
                /\ \A j \in 1..(i - 1) : t[j].key # key].value
    ELSE NULL

\* C14: get_metadata returns the value of the first-inserted pair with the
\* key, and NULL when there is none or when the Document or the key is
\* NULL; an add_metadata call that returns has appended its pair after the
\* pairs already there (a pair with a key already present included), and
\* has changed nothing when its Document, key or value is NULL.
C14_FirstInserted ==
    [][ /\ \A q \in MetaKeys :
            GetMetadata(doc', q) =
                IF doc' = <<>> \/ q = NULL THEN NULL
                ELSE C14_First(doc'[1].metadata, q)
        /\ \A key \in MetaKeys : \A value \in MetaValues : \A heap \in BOOLEAN :
            (AddMetadata(key, value, heap) /\ pc' # "crashed") =>
                IF doc = <<>> \/ key = NULL \/ value = NULL
                THEN doc' = doc
                ELSE /\ doc'[1].metadata
                          = Append(doc[1].metadata, [key |-> key, value |-> value])
                     /\ doc'[1].root = doc[1].root
      ]_vars

\* The key 'a' was parsed with the value "1" and added again with the
\* value "b": both pairs are in the table and the lookup gives "1".
C14_Witness ==
    /\ pc = "done" /\ doc # <<>> /\ adds >= 1
    /\ Len(doc[1].metadata) >= 2
    /\ doc[1].metadata[1] = [key |-> <<LOWER_A>>, value |-> <<DIGIT1>>]
    /\ doc[1].metadata[Len(doc[1].metadata)] = [key |-> <<LOWER_A>>, value |-> <<LOWER_B>>]
    /\ GetMetadata(doc, <<LOWER_A>>) = <<DIGIT1>>

C16_FailureSetsError ==
    ReturnedNothing =>
        /\ errLog # <<>>
        /\ errLog[Len(errLog)].by = "parse_metamark"
        /\ last_error = errLog[Len(errLog)].code
        /\ last_error \in {MM_ERROR_INVALID, MM_ERROR_SYNTAX, MM_ERROR_MEMORY}
        /\ last_error # MM_ERROR_NONE

\* A call that ran out of memory left Memory in last_error; the next call
\* parsed a text without any node and returned NULL with Syntax.
C16_Witness ==
    /\ ReturnedNothing
    /\ arg # NULL
    /\ lexer.length > 0
    /\ lexer.pos = lexer.length
    /\ error_before = MM_ERROR_MEMORY
    /\ last_error = MM_ERROR_SYNTAX

\* The cursor after an iteration of the document loop that began with the
\* lexer lx and went on: parser.c 586-596.
C17_After(lx, ub) ==
    LET r == parse_node(lx, ub)
    IN  IF r.node # <<>> THEN r.lexer.pos ELSE skip_in(r.lexer, Space).pos

\* C17: every iteration of the document loop that goes on (one parse_node
\* call, and the white-space skip when it gives no node) ends with the
\* cursor strictly further than it began and never past the end of the
\* text, whatever the outcome of the behaviour the C standard leaves open;
\* and every parse_metamark call that has begun comes to its end.
C17_Terminates ==
    /\ [](\A ub \in UB :
            (pc = "loop" /\ peek(lexer) # NUL /\ ~parse_node(lexer, ub).crash) =>
                /\ lexer.pos < C17_After(lexer, ub)
                /\ C17_After(lexer, ub) <= lexer.length)
    /\ [][ (pc = "loop" /\ pc' = "loop") =>
               /\ lexer.pos < lexer'.pos
               /\ lexer'.pos <= lexer'.length
               /\ lexer'.length = lexer.length
               /\ progress' = lexer.pos ]_vars
    /\ (pc \in {"front", "loop"}) ~> (pc \in {"done", "crashed"})

\* A call that went through two iterations of the loop and returned.
C17_Witness ==
    /\ pc = "done"
    /\ doc # <<>>
    /\ Len(Root.children) >= 2
    /\ progress > 0
    /\ lexer.pos = lexer.length

\* The delimiters the grammar routines step over with lexer->pos += n.
C18_Delimiters ==
    { <<RBRACKET, RBRACKET>>, <<PERCENT, PERCENT>>, <<DASH, DASH, DASH>> }

\* C18: in every state of a parse 0 <= pos <= length; and with the cursor
\* of the current text at any position p: peek and peek_at give NUL at or
\* past the length and the input's byte before it, next at the end gives
\* back the same lexer and moves by one byte before it, and a delimiter
\* skip taken under its guard (the delimiter stands at the cursor) does not
\* pass the length.
C18_ScannerBounds ==
    /\ 0 <= lexer.pos
    /\ lexer.pos <= lexer.length
    /\ lexer.length = Len(lexer.input)
    /\ \A p \in 0..(lexer.length + 2) :
        LET lx == [lexer EXCEPT !.pos = p]
        IN  /\ p >= lexer.length => (peek(lx) = NUL /\ next(lx) = lx)
            /\ p < lexer.length =>
                    /\ peek(lx) = lexer.input[p + 1]
                    /\ next(lx) = [lexer EXCEPT !.pos = p + 1]
            /\ \A offset \in 0..3 :
                    peek_at(lx, offset) =
                        IF p + offset >= lexer.length THEN NUL
                        ELSE lexer.input[p + offset + 1]
            /\ \A pat \in C18_Delimiters :
                    looking_at(lx, pat) => skip(lx, Len(pat)).pos <= lexer.length

\* The comment "%%a%%" was parsed: its closing delimiter was stepped over
\* with pos += 2 and the cursor stands at the length.
C18_Witness ==
    /\ pc = "done"
    /\ arg = <<PERCENT, PERCENT, LOWER_A, PERCENT, PERCENT>>
    /\ doc # <<>>
    /\ Root.children[1].type = NODE_COMMENT
    /\ lexer.pos = lexer.length
    /\ lexer.length = 5

\* C19 (as stated): a read_token_value call that returns gives NULL when
\* start >= end or end is past the length of the input, and the bytes
\* [start, end) of the input otherwise.
C19_AbsentOrExact ==
    (token_value # <<>> /\ ~token_value[1].result.crash) =>
        LET t == token_value[1]
        IN  IF t.start >= t.end \/ t.end > lexer.length
            THEN t.result.value = NULL
            ELSE t.result.value = Bytes(lexer.input, t.start, t.end)

\* C20 (as stated): a Document that parse_metamark returns has a root of
\* type Document with at least one child; a call on a text that is not
\* empty and from which no node comes returns NULL with last_error Syntax,
\* and so does every call on a text of heading markers only, once it is
\* over.
C20_RootHasChild ==
    /\ ReturnedDocument =>
            (Root.type = NODE_DOCUMENT /\ Len(Root.children) >= 1)
    /\ (ReturnedNothing /\ arg # NULL /\ lexer.length > 0) =>
            last_error = MM_ERROR_SYNTAX
    /\ (pc \in {"done", "crashed"} /\ arg # NULL /\ arg # <<>> /\ AllIn(arg, {HASH})) =>
            (ReturnedNothing /\ last_error = MM_ERROR_SYNTAX)

\* The tree of values that stands at the address a of the storage h.
RECURSIVE TreeOf(_, _)
TreeOf(h, a) ==
    [type |-> h[a].type, content |-> h[a].content,
     children |-> [i \in 1..Len(h[a].children) |-> TreeOf(h, h[a].children[i])]]

\* A tree of Node values without the fields that are not stored per Node
\* above.
RECURSIVE ViewOf(_)
ViewOf(n) ==
    [type |-> n.type, content |-> n.content,
     children |-> [i \in 1..Len(n.children) |-> ViewOf(n.children[i])]]

\* The places where the address a is stored: <<parent, index>>.
ParentsOf(h, a) ==
    { pi \in (1..Len(h)) \X (1..Len(h)) :
        pi[2] <= Len(h[pi[1]].children) /\ h[pi[1]].children[pi[2]] = a }

\* In the storage h every Node that is not destroyed is either the root,
\* stored nowhere, or stored in exactly one place, in a Node allocated
\* before it (so no Node is its own descendant) that is not destroyed
\* either.
Owned(h) ==
    \A a \in 1..Len(h) :
        h[a].freed = 0 =>
            IF a = RootAddress THEN ParentsOf(h, a) = {}
            ELSE /\ Cardinality(ParentsOf(h, a)) = 1
                 /\ \A pi \in ParentsOf(h, a) : pi[1] < a /\ h[pi[1]].freed = 0

\* C21: in every tree the parser builds each Node other than the root is
\* the child of exactly one parent, without sharing or cycles, and the
\* Nodes in storage are the tree of the Document; free_document on a
\* returned Document destroys every Node of the tree and every metadata
\* pair exactly once; free_document and free_node on NULL change nothing.
C21_Ownership ==
    /\ (doc # <<>> /\ pc \in {"front", "loop", "done"}) =>
            /\ Owned(nodes)
            /\ TreeOf(nodes, RootAddress) = ViewOf(Root)
    /\ ReturnedDocument =>
            \A heap \in BOOLEAN :
                LET f == free_document(nodes, doc, heap)
                IN  /\ ~f.crash
                    /\ \A a \in 1..Len(nodes) : f.nodes[a].freed = 1
                    /\ Len(f.pairs) = Len(doc[1].metadata)
                    /\ \A i \in 1..Len(f.pairs) : f.pairs[i] = 1
    /\ \A heap \in BOOLEAN :
            free_document(nodes, <<>>, heap) = [nodes |-> nodes, pairs |-> <<>>, crash |-> FALSE]
    /\ free_node(nodes, 0) = nodes

\* The label that names a node kind: the kind's name in upper case.
C22_Name(type) ==
    CASE type = NODE_DOCUMENT -> "DOCUMENT"
      [] type = NODE_METADATA -> "METADATA"
      [] type = NODE_HEADING -> "HEADING"
      [] type = NODE_PARAGRAPH -> "PARAGRAPH"
      [] type = NODE_ANNOTATION -> "ANNOTATION"
      [] type = NODE_COMMENT -> "COMMENT"
      [] type = NODE_COMPONENT -> "COMPONENT"
      [] type = NODE_COLLAPSIBLE -> "COLLAPSIBLE"
      [] type = NODE_DIAGRAM -> "DIAGRAM"
      [] type = NODE_MATH -> "MATH"
      [] type = NODE_SECURE -> "SECURE"

\* C22 (as stated): node_type_to_string gives each of the eleven node kinds
\* the label that names it, and no label to two kinds.
C22_Labels ==
    label # <<>> =>
        /\ label[1].label = C22_Name(label[1].type)
        /\ \A other \in NodeType \ {label[1].type} :
                node_type_to_string(other) # label[1].label

\* The pairs of a metadata mapping, each written key ':' value.
C23_PairTexts(metadata) ==
    [i \in 1..Len(metadata) |-> metadata[i].key \o <<COLON>> \o metadata[i].value]

\* The contents of the children of a Metadata node: each is the trimmed
\* key, ':' and the trimmed value of one line; a key holds no ':'.
C23_ChildTexts(node) ==
    [i \in 1..Len(node.children) |-> node.children[i].content]

\* C23 (as stated): once the frontmatter block of a text has been handled,
\* the pairs parse_metadata_node appended to the Document's metadata mapping
\* are, in number, order, key and value, the key:value children that
\* parse_metadata built for the block.
C23_ExtractorAgrees ==
    [][(pc = "front" /\ pc' = "loop" /\ Len(doc'[1].root.children) = 1) =>
            C23_PairTexts(doc'[1].metadata) = C23_ChildTexts(doc'[1].root.children[1])]_vars

\* The key of a key:value child of a Metadata node.
C24_KeyOf(content) == Bytes(content, 0, find(content, 0, Len(content), {COLON}))

\* C24 (as stated): in a returned Document the key of every key:value child
\* of every Metadata node of the tree, wherever its block stood in the text,
\* is found by get_metadata.
C24_MetadataRegistered ==
    ReturnedDocument =>
        \A i \in 1..Len(Root.children) :
            Root.children[i].type = NODE_METADATA =>
                \A j \in 1..Len(Root.children[i].children) :
                    get_metadata(doc[1], C24_KeyOf(Root.children[i].children[j].content)) # NULL

\* C25: nothing writes None to last_error: from the moment a call has left
\* an error kind in it, get_last_error() returns a kind other than None
\* after every later step, also after later parses that return a Document.
C25_NeverReset ==
    [](last_error # MM_ERROR_NONE => [](last_error # MM_ERROR_NONE))

\* A parse that returned a Document and met no failure, after a call that
\* had been handed NULL: last_error still holds Invalid.
C25_Witness ==
    /\ ReturnedDocument
    /\ errLog = <<>>
    /\ error_before = MM_ERROR_INVALID
    /\ last_error = MM_ERROR_INVALID

\* C26 (as stated): a next_token pull made with the cursor, after the
\* intraline white space, before the end of the input leaves the cursor at
\* least one byte further.
C26_TokenProgress ==
    (family = "token" /\ token_value # <<>>) =>
        (token_value[1].start < lexer.length =>
            token_value[1].end > token_value[1].start)

\* C27 (as stated): a Document never holds more pairs than the metadata
\* array was allocated slots for: no pair is stored at an index at or
\* beyond the capacity.
C27_WithinCapacity ==
    doc # <<>> => Len(doc[1].metadata) <= doc[1].capacity

\* The read_token_value requests of the grammar routine that parse_metamark
\* calls next in the current state, for the outcome ub of what the C
\* standard leaves open.
C28_Requests(ub) ==
    IF pc = "front" /\ at_fence(lexer)
    THEN parse_metadata(lexer, ub.fence, ub.malloc0).reads
    ELSE IF pc = "loop" /\ peek(lexer) # NUL
    THEN parse_node(lexer, ub).reads
    ELSE <<>>

\* C28 (as stated): every substring extraction a grammar routine requests
\* during a parse has 0 <= start <= end <= input length; parse_heading's
\* request with end = pos - 1 never has end < start.
C28_RequestsInRange ==
    \A ub \in UB :
        \A i \in 1..Len(C28_Requests(ub)) :
            /\ 0 <= C28_Requests(ub)[i].start
            /\ C28_Requests(ub)[i].start <= C28_Requests(ub)[i].end
            /\ C28_Requests(ub)[i].end <= lexer.length

\* In the text s a component opening "[[" type "]]" stands at o, with the
\* first ']' after "[[" at e; its body starts at b, after the "]]" and one
\* newline if there is one, and the first "[[/" at or after b stands at c.
C29_Shape(s, o, e, b, c) ==
    /\ OccursAt(<<LBRACKET, LBRACKET>>, s, o)
    /\ o + 2 <= e
    /\ OccursAt(<<RBRACKET, RBRACKET>>, s, e)
    /\ \A k \in (o + 3)..e : s[k] # RBRACKET
    /\ b = IF e + 2 < Len(s) /\ s[e + 3] = LF THEN e + 3 ELSE e + 2
    /\ b <= c
    /\ OccursAt(<<LBRACKET, LBRACKET, SLASH>>, s, c)
    /\ \A k \in b..(c - 1) : ~OccursAt(<<LBRACKET, LBRACKET, SLASH>>, s, k)

\* C29: when the document loop stands before a component opening that is
\* followed somewhere by "[[/", the iteration adds a Component node named by
\* the opening tag, whose body is the text up to the first "[[/", and sets no
\* error: whatever follows that "[[/" (another name, no name, a single ']',
\* the end of the input).
C29_ClosedByFirstCloseTag ==
    [][\A c \in 0..Len(arg) :
        LET o == skip_in(skip_in(lexer, Newlines), Space).pos
            e == find(arg, o + 2, Len(arg), {RBRACKET})
            b == IF e + 2 < Len(arg) /\ arg[e + 3] = LF THEN e + 3 ELSE e + 2
        IN
        (pc = "loop" /\ C29_Shape(arg, o, e, b, c)) =>
            /\ pc' = "loop"
            /\ errLog' = errLog
            /\ last_error' = last_error
            /\ Len(doc'[1].root.children) = Len(doc[1].root.children) + 1
            /\ LET node == doc'[1].root.children[Len(doc'[1].root.children)]
               IN  /\ node.type = NODE_COMPONENT
                   /\ node.content = Bytes(arg, o + 2, e)
                   /\ Len(node.children) = 1
                   /\ node.children[1].type = NODE_PARAGRAPH
                   /\ node.children[1].content = Bytes(arg, b, c)]_vars

\* A Document returned for a text that is one component whose closing tag
\* is "[[/" and a single ']': the first child is the Component, no error
\* was set.
C29_Witness ==
    /\ ReturnedDocument
    /\ errLog = <<>>
    /\ last_error = MM_ERROR_NONE
    /\ Len(Root.children) >= 1
    /\ Root.children[1].type = NODE_COMPONENT
    /\ C29_Shape(arg, 0, 3, 5, Len(arg) - 4)
    /\ arg[Len(arg)] = RBRACKET

\* The addresses of the storage h that are reached from the addresses S
\* through children arrays.
RECURSIVE ReachedFrom(_, _)
ReachedFrom(h, S) ==
    LET T == S \cup { a \in 1..Len(h) :
                        \E p \in S : \E i \in 1..Len(h[p].children) : h[p].children[i] = a }
    IN  IF T = S THEN S ELSE ReachedFrom(h, T)

\* C30: when parse_metamark returns a Document, every Node created during
\* the call is reachable from the Document's root and not destroyed, or is
\* destroyed; when it returns no Document, every Node created during the
\* call is destroyed.
C30_NoNodeLost ==
    Returned =>
        IF doc # <<>>
        THEN \A a \in 1..Len(nodes) :
                \/ a \in ReachedFrom(nodes, {RootAddress}) /\ nodes[a].freed = 0
                \/ a \notin ReachedFrom(nodes, {RootAddress}) /\ nodes[a].freed = 1
        ELSE \A a \in 1..Len(nodes) : nodes[a].freed = 1

\* A Document returned by a call in which a frontmatter block was given up
\* after a child of its Metadata node had been built: that child and the
\* Metadata node are destroyed, the nodes built later hang from the root.
C30_Witness ==
    /\ ReturnedDocument
    /\ Len(Root.children) >= 1
    /\ \E a, b \in 1..Len(nodes) :
        /\ nodes[a].type = NODE_METADATA /\ nodes[a].freed = 1
        /\ nodes[b].type = NODE_PARAGRAPH /\ nodes[b].freed = 1
        /\ \E i \in 1..Len(nodes[a].children) : nodes[a].children[i] = b

===========================================================================
